---- MODULE Spec2Model ----
(***************************************************************************)
(* A model of the PayPal client library:                                    *)
(*   utils.py                 parse_nvp, nvp_array_re                      *)
(*   paypal/api/__init__.py   PaypalAPIRequest.post, PaypalAPIResponse,    *)
(*                            PaypalJSONAPIResponse, PaypalNVPAPIResponse  *)
(*   paypal/api/adaptive_payments.py                                       *)
(*                            AdaptivePayments.pay, PayResponse            *)
(* Spec follows one response instance from the HTTP payload it is built    *)
(* from, through its construction, to the reads of collapsed_response and  *)
(* the generators made by zipped_response.  SpecThreads runs the getter of *)
(* collapsed_response in several threads, statement by statement.          *)
(* SpecRegex applies nvp_array_re to single keys.  SpecPay follows a call  *)
(* of pay() and the reads of the PayResponse it returns.  SpecPost follows *)
(* a call of post().  SpecConfig follows Configuration.configure and the   *)
(* reads of config on API classes and instances                            *)
(* (paypal/configuration.py, PaypalAPIMeta, PaypalAPI).                    *)
(*                                                                         *)
(* Python values are encoded as follows.                                   *)
(*   str                a TLA+ string                                      *)
(*   None / an object   <<>> / <<x>>  (an optional value)                  *)
(*   OrderedDict        a sequence of <<key, value>> pairs, keys unique    *)
(*   dict               [map |-> function on the keys, order |-> ...]      *)
(*   a value of the collapsed mapping                                      *)
(*                      [isList |-> FALSE, str |-> s, items |-> <<>>] or   *)
(*                      [isList |-> TRUE, str |-> "", items |-> list]      *)
(*                      where the elements of list are optional strings    *)
(***************************************************************************)
EXTENDS Integers, Sequences, FiniteSets, TLC

VARIABLES
    kind,      \* "NVP" or "JSON": the response class being built
    truthy,    \* bool(response) of the constructor's argument
    content,   \* NVP: the name-value pairs of response.content
    body,      \* JSON: the dict response.json() gives
    pc,        \* "new", "ready" (an instance exists) or "failed" (__init__ raised)
    response,  \* self.response
    cache,     \* self._collapsed_response
    gens,      \* the generator objects made by zipped_response(), in order
    op,        \* the operation that ran last
    raised,    \* the exception it raised, "" when it returned
    ret,       \* the value it returned, None when it returned nothing
    scans,     \* number of times the loop of collapsed_response ran to its end
    threads,   \* the threads inside the getter of collapsed_response
    rkey,      \* a key nvp_array_re is matched against
    rmatch,    \* what nvp_array_re.match(rkey) gave
    receivers, \* pay(): the primary flag of each receiver, in order
    preapproval_key,  \* pay(): None or the key
    implicit,  \* pay(): truth value of the argument
    server,    \* the HTTP responses PayPal gives to Pay and PaymentDetails
    requests,  \* the HTTP requests posted by pay(), in order
    pay_response,     \* the PayResponse pay() returned, None before
    payop,     \* the operation of the payment side that ran last
    payraised, \* the exception it raised, "" when it returned
    payret,    \* the value a property read returned
    api,       \* post(): the request class it is called on
    data,      \* post(): the caller's data mapping, None when not passed
    headers,   \* post(): the caller's headers mapping, None when not passed
    sent,      \* post(): what was handed to requests.post, None before
    settings,  \* the class attributes of Configuration, None before configure
    own,       \* _configuration in the __dict__ of each API class, None if unset
    instances, \* the API instances made, each with its _configuration
    cfgop,     \* the configuration operation that ran last
    cfgraised, \* the exception it raised, "" when it returned
    cfgret     \* the configuration a read of config returned

\* The variables of the response instance, of its threads, of the key
\* matcher, of pay(), of post() and of the configuration.
nvpVars == <<kind, truthy, content, body, pc, response, cache, gens, op, raised, ret, scans>>
threadVars == <<threads>>
regexVars == <<rkey, rmatch>>
payVars == <<receivers, preapproval_key, implicit, server, requests, pay_response,
             payop, payraised, payret>>
postVars == <<api, data, headers, sent>>
configVars == <<settings, own, instances, cfgop, cfgraised, cfgret>>

vars == <<nvpVars, threadVars, regexVars, payVars, postVars, configVars>>

\* ------------------------------------------------------------------ bounds
\* Name-value pairs on the wire besides the three required ones.
MaxPairs == 2
\* Generator objects obtained from zipped_response() in one run.
MaxGens == 2

\* ------------------------------------------------------------ input pools
None == <<>>
Some(x) == <<x>>

RequiredNVP == <<"ACK", "CORRELATIONID", "TIMESTAMP">>
RequiredJSON == {"ack", "correlationId", "timestamp"}

\* Keys and values the wire pairs are drawn from: array keys of two fields
\* (one whose name starts with L), a key that is the collapsed identifier
\* of an array field, and values of two lengths.
Keys == {"L_FOO0", "L_FOO1", "L_FOO2", "L_FOO", "L_LA0"}
Vals == {"a", "bc"}
Pool == Keys \X Vals

\* ------------------------------------------------------- strings, regex
Digits == {"0", "1", "2", "3", "4", "5", "6", "7", "8", "9"}

CharAt(s, i) == SubSeq(s, i, i)

DigitVal(c) ==
    CASE c = "0" -> 0 [] c = "1" -> 1 [] c = "2" -> 2 [] c = "3" -> 3
      [] c = "4" -> 4 [] c = "5" -> 5 [] c = "6" -> 6 [] c = "7" -> 7
      [] c = "8" -> 8 [] c = "9" -> 9

\* int(s) for a non-empty run of decimal digits.
RECURSIVE int(_)
int(s) ==
    IF Len(s) = 0 THEN 0
    ELSE 10 * int(SubSeq(s, 1, Len(s) - 1)) + DigitVal(CharAt(s, Len(s)))

\* Length of the longest suffix of s made of digits only.
RECURSIVE TrailingDigits(_)
TrailingDigits(s) ==
    IF Len(s) > 0 /\ CharAt(s, Len(s)) \in Digits
    THEN 1 + TrailingDigits(SubSeq(s, 1, Len(s) - 1))
    ELSE 0

\* nvp_array_re.match(s) for nvp_array_re = '^(?P<key>L_.*\D)(?P<index>\d+)$',
\* compiled without flags.  $ matches at the end of s and also just before
\* a line feed that ends s; \d+ preceded by \D is then the whole digit run
\* before that point.  The key group is the rest: L_, any characters but
\* line feeds (. does not match one), and one character that is not a
\* digit.  The result is None or the pair match.groups().
nvp_array_re_match(s) ==
    LET e == IF Len(s) > 0 /\ CharAt(s, Len(s)) = "\n" THEN Len(s) - 1 ELSE Len(s)
        d == TrailingDigits(SubSeq(s, 1, e))
        n == e - d
    IN  IF /\ d >= 1
           /\ n >= 3
           /\ SubSeq(s, 1, 2) = "L_"
           /\ \A i \in 3..(n - 1) : CharAt(s, i) # "\n"
        THEN Some(<<SubSeq(s, 1, n), SubSeq(s, n + 1, e)>>)
        ELSE None

\* str.lstrip(chars): drops every leading character that is in chars.
RECURSIVE lstrip(_, _)
lstrip(s, chars) ==
    IF Len(s) > 0 /\ CharAt(s, 1) \in chars
    THEN lstrip(SubSeq(s, 2, Len(s)), chars)
    ELSE s

\* -------------------------------------------------------- ordered dicts
RECURSIVE odIndex(_, _)
\* Position of key k in the ordered dict od, 0 when absent.
odIndex(od, k) ==
    IF Len(od) = 0 THEN 0
    ELSE IF od[Len(od)][1] = k THEN Len(od)
    ELSE odIndex(SubSeq(od, 1, Len(od) - 1), k)

odHas(od, k) == odIndex(od, k) # 0
odGet(od, k) == od[odIndex(od, k)][2]

\* od[k] = v: an existing key keeps its position, a new key goes last.
odSet(od, k, v) ==
    IF odHas(od, k) THEN [od EXCEPT ![odIndex(od, k)] = <<k, v>>]
    ELSE Append(od, <<k, v>>)

odKeys(od) == {od[i][1] : i \in 1..Len(od)}

\* OrderedDict(pairs)
RECURSIVE OrderedDict(_)
OrderedDict(pairs) ==
    IF Len(pairs) = 0 THEN <<>>
    ELSE odSet(OrderedDict(SubSeq(pairs, 1, Len(pairs) - 1)),
               pairs[Len(pairs)][1], pairs[Len(pairs)][2])

\* parse_nvp: content is given as the name-value pairs urlparse.parse_qsl
\* splits it into.
parse_nvp(nvp) == OrderedDict(nvp)

\* ------------------------------------------------------------- collapse
StrVal(s) == [isList |-> FALSE, str |-> s, items |-> <<>>]
ListVal(l) == [isList |-> TRUE, str |-> "", items |-> l]

\* len(x) for a str or a list
len(x) == IF x.isList THEN Len(x.items) ELSE Len(x.str)

\* [None] * n
RECURSIVE Nones(_)
Nones(n) == IF n <= 0 THEN <<>> ELSE Append(Nones(n - 1), None)

\* CollapseStep without the comparison of the index with the length: an
\* index behind the end of the list is appended like any other.
CollapseStep_NoOrderCheck(od, key, value) ==
    LET match == nvp_array_re_match(key)
    IN  IF match # None
        THEN LET k == match[1][1]
                 index == int(match[1][2])
                 od1 == IF odHas(od, k) THEN od ELSE odSet(od, k, ListVal(<<>>))
                 cur == odGet(od1, k)
                 keys == len(cur)
             IN  IF ~cur.isList
                 THEN [exc |-> "AttributeError", od |-> od1]
                 ELSE [exc |-> "",
                       od |-> odSet(od1, k,
                                ListVal(Append(cur.items \o Nones(index - keys),
                                               Some(value))))]
        ELSE [exc |-> "", od |-> odSet(od, key, StrVal(value))]

\* CollapseStep storing a scalar with setdefault: a key already in the
\* mapping keeps what it holds.
CollapseStep_SetDefault(od, key, value) ==
    LET match == nvp_array_re_match(key)
    IN  IF match # None
        THEN LET k == match[1][1]
                 index == int(match[1][2])
                 od1 == IF odHas(od, k) THEN od ELSE odSet(od, k, ListVal(<<>>))
                 cur == odGet(od1, k)
                 keys == len(cur)
             IN  IF index < keys
                 THEN [exc |-> "IndexError", od |-> od1]
                 ELSE IF ~cur.isList
                 THEN [exc |-> "AttributeError", od |-> od1]
                 ELSE [exc |-> "",
                       od |-> odSet(od1, k,
                                ListVal(Append(cur.items \o Nones(index - keys),
                                               Some(value))))]
        ELSE [exc |-> "",
              od |-> IF odHas(od, key) THEN od ELSE odSet(od, key, StrVal(value))]

\* One pass of the loop body of collapsed_response on the pair (key, value)
\* with the local OrderedDict od.  exc names the exception that leaves the
\* loop, "" when the pass completes.
CollapseStep(od, key, value) ==
    LET match == nvp_array_re_match(key)
    IN  IF match # None
        THEN LET k == match[1][1]
                 index == int(match[1][2])
                 od1 == IF odHas(od, k) THEN od ELSE odSet(od, k, ListVal(<<>>))
                 cur == odGet(od1, k)
                 keys == len(cur)
             IN  IF index < keys
                 THEN [exc |-> "IndexError", od |-> od1]
                 ELSE IF ~cur.isList
                 THEN \* str has neither extend nor append
                      [exc |-> "AttributeError", od |-> od1]
                 ELSE [exc |-> "",
                       od |-> odSet(od1, k,
                                ListVal(Append(cur.items \o Nones(index - keys),
                                               Some(value))))]
        ELSE [exc |-> "", od |-> odSet(od, key, StrVal(value))]

\* The loop of collapsed_response over the first n items of the response.
RECURSIVE Scan(_, _)
Scan(resp, n) ==
    IF n = 0 THEN [exc |-> "", od |-> <<>>]
    ELSE LET before == Scan(resp, n - 1)
         IN  IF before.exc # "" THEN before
             ELSE CollapseStep(before.od, resp[n][1], resp[n][2])

\* Permutations of a finite set, as sequences.
RECURSIVE Perms(_)
Perms(S) ==
    IF S = {} THEN {<<>>}
    ELSE UNION {{Append(p, x) : p \in Perms(S \ {x})} : x \in S}

\* dict(od).  A dict iterates in an arbitrary order that is fixed as long as
\* the dict is not modified; order is that order restricted to the keys
\* holding lists, the only ones zipped_response looks at.
ListKeys(od) == {k \in odKeys(od) : odGet(od, k).isList}

dict(od, order) == [map |-> [k \in odKeys(od) |-> odGet(od, k)], order |-> order]

\* collapsed_response without the assignment to self._collapsed_response.
collapsed_response_NoStore(resp, c, order) ==
    IF c # None
    THEN [exc |-> "", cache |-> c, ret |-> c, scanned |-> FALSE]
    ELSE IF resp = None
    THEN [exc |-> "AttributeError", cache |-> c, ret |-> None, scanned |-> FALSE]
    ELSE LET r == Scan(resp[1], Len(resp[1]))
             new == Some(dict(r.od, order))
         IN  IF r.exc # ""
             THEN [exc |-> r.exc, cache |-> c, ret |-> None, scanned |-> FALSE]
             ELSE [exc |-> "", cache |-> c, ret |-> new, scanned |-> TRUE]

\* collapsed_response without the test of self._collapsed_response: every
\* read builds the mapping and stores a new dict.
collapsed_response_Rebuild(resp, c, order) ==
    IF resp = None
    THEN [exc |-> "AttributeError", cache |-> c, ret |-> None, scanned |-> FALSE]
    ELSE LET r == Scan(resp[1], Len(resp[1]))
             new == Some(dict(r.od, order))
         IN  IF r.exc # ""
             THEN [exc |-> r.exc, cache |-> c, ret |-> None, scanned |-> FALSE]
             ELSE [exc |-> "", cache |-> new, ret |-> new, scanned |-> TRUE]

\* collapsed_response keeping what the loop had built when it raised.
collapsed_response_StorePartial(resp, c, order) ==
    IF c # None
    THEN [exc |-> "", cache |-> c, ret |-> c, scanned |-> FALSE]
    ELSE IF resp = None
    THEN [exc |-> "AttributeError", cache |-> c, ret |-> None, scanned |-> FALSE]
    ELSE LET r == Scan(resp[1], Len(resp[1]))
             new == Some(dict(r.od, order))
         IN  IF r.exc # ""
             THEN [exc |-> r.exc, cache |-> Some(dict(r.od, <<>>)), ret |-> None,
                   scanned |-> FALSE]
             ELSE [exc |-> "", cache |-> new, ret |-> new, scanned |-> TRUE]

\* The getter of the property collapsed_response, with the instance's
\* response resp and cache c; order is the iteration order the new dict has.
\* Gives the exception raised (or ""), the cache afterwards, the value
\* returned and whether the loop ran to its end.
collapsed_response(resp, c, order) ==
    IF c # None
    THEN [exc |-> "", cache |-> c, ret |-> c, scanned |-> FALSE]
    ELSE IF resp = None
    THEN \* None has no iteritems
         [exc |-> "AttributeError", cache |-> c, ret |-> None, scanned |-> FALSE]
    ELSE LET r == Scan(resp[1], Len(resp[1]))
             new == Some(dict(r.od, order))
         IN  IF r.exc # ""
             THEN [exc |-> r.exc, cache |-> c, ret |-> None, scanned |-> FALSE]
             ELSE [exc |-> "", cache |-> new, ret |-> new, scanned |-> TRUE]

\* The orders the dict made from resp may iterate in.
Orders(resp) ==
    IF resp = None THEN {<<>>}
    ELSE LET r == Scan(resp[1], Len(resp[1]))
         IN  IF r.exc # "" THEN {<<>>} ELSE Perms(ListKeys(r.od))

\* ---------------------------------------------------------- generators
\* The body of zipped_response up to its loop reads self.collapsed_response
\* twice; c is the mapping a read returned.  transaction_keys is a tuple,
\* and izip holds one iterator per list.
transaction_keys(c) == [j \in 1..Len(c[1].order) |-> lstrip(c[1].order[j], {"L", "_"})]
transaction_values(c) == [j \in 1..Len(c[1].order) |-> c[1].map[c[1].order[j]].items]

\* izipHasNext stopping one tuple early.
izipHasNext_StopEarly(cols, pos) ==
    /\ Len(cols) > 0
    /\ \A j \in 1..Len(cols) : pos + 1 < Len(cols[j])

\* itertools.izip(*cols) has a next tuple after pos tuples: izip() of
\* nothing is empty, and izip stops at the first iterator that is exhausted.
izipHasNext(cols, pos) ==
    /\ Len(cols) > 0
    /\ \A j \in 1..Len(cols) : pos < Len(cols[j])

\* dict(izip(keys, values)) for the tuple at position pos (from 0): a key
\* that occurs twice keeps the value of its last occurrence.
zipRecord(keys, cols, pos) ==
    [k \in {keys[j] : j \in 1..Len(keys)} |->
        LET last == CHOOSE j \in 1..Len(keys) :
                        /\ keys[j] = k
                        /\ \A i \in (j + 1)..Len(keys) : keys[i] # k
        IN  cols[last][pos + 1]]

NewGen == [st |-> "created", keys |-> <<>>, cols |-> <<>>, pos |-> 0, out |-> <<>>]

\* ----------------------------------------------------------- accessors
\* getattr(self, name) for the properties validate() is given: TRUE when the
\* key lookups behind the property raise KeyError.
KeyErrorIn(k, resp, name) ==
    IF k = "NVP"
    THEN CASE name = "ack" -> ~odHas(resp, "ACK")
           [] name = "correlation_id" -> ~odHas(resp, "CORRELATIONID")
           [] name = "timestamp" -> ~odHas(resp, "TIMESTAMP")
    ELSE \/ "responseEnvelope" \notin DOMAIN resp
         \/ CASE name = "response_envelope" -> FALSE
               [] name = "ack" -> "ack" \notin DOMAIN resp.responseEnvelope
               [] name = "correlation_id" ->
                      "correlationId" \notin DOMAIN resp.responseEnvelope
               [] name = "timestamp" -> "timestamp" \notin DOMAIN resp.responseEnvelope

\* PaypalAPIResponse.__init__ after parse_response: self.success reads ack,
\* then correlation_id and timestamp are logged.  The exception raised.
BaseInit(k, resp) ==
    IF \E name \in {"ack", "correlation_id", "timestamp"} : KeyErrorIn(k, resp, name)
    THEN "KeyError"
    ELSE ""

ValidateKeys(k) ==
    IF k = "NVP" THEN {"ack", "correlation_id", "timestamp"}
    ELSE {"response_envelope", "ack", "correlation_id", "timestamp"}

\* validate(keys) on an instance whose self.response is resp (None or Some).
validate(k, resp) ==
    IF resp = None THEN ""
    ELSE IF \E name \in ValidateKeys(k) : KeyErrorIn(k, resp[1], name)
    THEN "PaypalAPIError"
    ELSE ""

\* ConstructExc of a constructor that also collapses the parsed response.
ConstructExc_Eager(k, isTruthy, parsed) ==
    IF isTruthy /\ BaseInit(k, parsed) # "" THEN BaseInit(k, parsed)
    ELSE IF validate(k, IF isTruthy THEN Some(parsed) ELSE None) # ""
    THEN validate(k, IF isTruthy THEN Some(parsed) ELSE None)
    ELSE IF k = "NVP" /\ isTruthy THEN Scan(parsed, Len(parsed)).exc
    ELSE ""

\* PaypalNVPAPIResponse(...) / PaypalJSONAPIResponse(...): the exception the
\* constructor raises, "" when it returns the instance.
ConstructExc(k, isTruthy, parsed) ==
    IF isTruthy /\ BaseInit(k, parsed) # "" THEN BaseInit(k, parsed)
    ELSE validate(k, IF isTruthy THEN Some(parsed) ELSE None)

\* ------------------------------------------------------------- the runs
SeqsUpTo(S, n) == UNION {[1..m -> S] : m \in 0..n}

SubSeqOf(seq, S) == SelectSeq(seq, LAMBDA x : x \in S)

RequiredPairs(present) ==
    [j \in 1..Len(SubSeqOf(RequiredNVP, present)) |->
        <<SubSeqOf(RequiredNVP, present)[j], IF j = 1 THEN "Success" ELSE "x">>]

Envelopes == UNION {[F -> {"x"}] : F \in SUBSET RequiredJSON}
Bodies == {<<>>} \cup {[responseEnvelope |-> e] : e \in Envelopes}

TypeInit ==
    /\ pc = "new"
    /\ response = None
    /\ cache = None
    /\ gens = <<>>
    /\ op = ""
    /\ raised = ""
    /\ ret = None
    /\ scans = 0

\* Payloads given in full besides the pairs drawn from Pool: the example of
\* the docstring of collapsed_response, array fields with different numbers
\* of keys, a gap, an index behind the list and a scalar named like a field.
Samples == {
    <<<<"L_TRANSACTIONID0", "1">>, <<"L_TRANSACTIONID1", "2">>,
      <<"L_TIMESTAMP0", "3">>, <<"L_TIMESTAMP1", "4">>>>,
    <<<<"L_FOO0", "a">>, <<"L_FOO1", "bc">>, <<"L_LA0", "a">>>>,
    <<<<"L_FOO0", "a">>, <<"L_FOO2", "bc">>>>,
    <<<<"L_FOO1", "a">>, <<"L_FOO0", "bc">>>>,
    <<<<"L_FOO", "a">>, <<"L_FOO1", "a">>>> }

\* The parts of the state a run does not use.
NvpIdle ==
    /\ TypeInit
    /\ kind = "NVP"
    /\ truthy = FALSE
    /\ content = <<>>
    /\ body = <<>>

ThreadsIdle == threads = <<>>

RegexIdle == rkey = "" /\ rmatch = None

PayIdle ==
    /\ receivers = <<>>
    /\ preapproval_key = None
    /\ implicit = FALSE
    /\ server = <<>>
    /\ requests = <<>>
    /\ pay_response = None
    /\ payop = ""
    /\ payraised = ""
    /\ payret = None

PostIdle == api = "" /\ data = None /\ headers = None /\ sent = None

ConfigIdle ==
    /\ settings = None
    /\ own = <<>>
    /\ instances = <<>>
    /\ cfgop = ""
    /\ cfgraised = ""
    /\ cfgret = None

Init ==
    /\ TypeInit
    /\ ThreadsIdle
    /\ RegexIdle
    /\ ConfigIdle
    /\ PayIdle
    /\ PostIdle
    /\ \/ /\ kind = "NVP"
          /\ body = <<>>
          /\ \/ /\ truthy = TRUE
                /\ \/ \E extra \in SeqsUpTo(Pool, MaxPairs) \cup Samples :
                         content = RequiredPairs({"ACK", "CORRELATIONID", "TIMESTAMP"})
                                       \o extra
                   \/ \E present \in SUBSET {"ACK", "CORRELATIONID", "TIMESTAMP"} :
                         content = RequiredPairs(present)
             \/ /\ truthy = FALSE
                /\ content = <<>>
       \/ /\ kind = "JSON"
          /\ content = <<>>
          /\ truthy = TRUE
          /\ body \in Bodies

\* PaypalNVPAPIResponse(configuration, response) or
\* PaypalJSONAPIResponse(configuration, response)
Construct ==
    /\ pc = "new"
    /\ LET parsed == IF kind = "NVP" THEN parse_nvp(content) ELSE body
           exc == ConstructExc(kind, truthy, parsed)
       IN  /\ raised' = exc
           /\ pc' = IF exc = "" THEN "ready" ELSE "failed"
           /\ response' = IF exc = "" /\ truthy THEN Some(parsed) ELSE None
    /\ op' = "__init__"
    /\ UNCHANGED <<kind, truthy, content, body, cache, gens, ret, scans>>
    /\ UNCHANGED <<threadVars, regexVars, payVars, postVars, configVars>>

\* A read of the property self.collapsed_response
GetCollapsed ==
    /\ pc = "ready"
    /\ kind = "NVP"
    /\ \E order \in Orders(response) :
           LET r == collapsed_response(response, cache, order)
           IN  /\ cache' = r.cache
               /\ raised' = r.exc
               /\ ret' = r.ret
               /\ scans' = IF r.scanned THEN scans + 1 ELSE scans
    /\ op' = "collapsed_response"
    /\ UNCHANGED <<kind, truthy, content, body, pc, response, gens>>
    /\ UNCHANGED <<threadVars, regexVars, payVars, postVars, configVars>>

\* A call of self.zipped_response() (also the property transactions of
\* TransactionSearchResponse): makes a generator, runs none of the body.
ZippedResponse ==
    /\ pc = "ready"
    /\ kind = "NVP"
    /\ Len(gens) < MaxGens
    /\ gens' = Append(gens, NewGen)
    /\ op' = "zipped_response"
    /\ raised' = ""
    /\ ret' = None
    /\ UNCHANGED <<kind, truthy, content, body, pc, response, cache, scans>>
    /\ UNCHANGED <<threadVars, regexVars, payVars, postVars, configVars>>

\* next(g) on the g-th generator
GenNext(g) ==
    /\ pc = "ready"
    /\ g \in 1..Len(gens)
    /\ op' = "next"
    /\ UNCHANGED <<kind, truthy, content, body, pc, response>>
    /\ UNCHANGED <<threadVars, regexVars, payVars, postVars, configVars>>
    /\ IF gens[g].st = "done"
       THEN /\ raised' = "StopIteration"
            /\ ret' = None
            /\ UNCHANGED <<cache, gens, scans>>
       ELSE IF gens[g].st = "created"
       THEN \E order \in Orders(response) :
              LET r == collapsed_response(response, cache, order)
                  r2 == collapsed_response(response, r.cache, order)
                  keys == transaction_keys(r.ret)
                  cols == transaction_values(r2.ret)
              IN  /\ cache' = IF r.exc # "" THEN r.cache ELSE r2.cache
                  /\ scans' = scans + (IF r.scanned THEN 1 ELSE 0)
                                    + (IF r.exc = "" /\ r2.scanned THEN 1 ELSE 0)
                  /\ IF r.exc # ""
                     THEN /\ raised' = r.exc
                          /\ ret' = None
                          /\ gens' = [gens EXCEPT ![g].st = "done"]
                     ELSE IF izipHasNext(cols, 0)
                     THEN /\ raised' = ""
                          /\ ret' = Some(zipRecord(keys, cols, 0))
                          /\ gens' = [gens EXCEPT ![g] =
                                 [st |-> "running", keys |-> keys, cols |-> cols,
                                  pos |-> 1,
                                  out |-> <<zipRecord(keys, cols, 0)>>]]
                     ELSE /\ raised' = "StopIteration"
                          /\ ret' = None
                          /\ gens' = [gens EXCEPT ![g] =
                                 [st |-> "done", keys |-> keys, cols |-> cols,
                                  pos |-> 0, out |-> <<>>]]
       ELSE /\ UNCHANGED <<cache, scans>>
            /\ IF izipHasNext(gens[g].cols, gens[g].pos)
               THEN LET rec == zipRecord(gens[g].keys, gens[g].cols, gens[g].pos)
                    IN  /\ raised' = ""
                        /\ ret' = Some(rec)
                        /\ gens' = [gens EXCEPT ![g].pos = @ + 1,
                                                 ![g].out = Append(@, rec)]
               ELSE /\ raised' = "StopIteration"
                    /\ ret' = None
                    /\ gens' = [gens EXCEPT ![g].st = "done"]

Next ==
    \/ Construct
    \/ GetCollapsed
    \/ ZippedResponse
    \/ \E g \in 1..MaxGens : GenNext(g)

Spec == Init /\ [][Next]_vars

\* ======================================== threads in collapsed_response
\* Threads that read the property collapsed_response of one instance.  Each
\* goes through the getter statement by statement: the test of
\* self._collapsed_response (line 301), one pass of the loop per item of
\* self.response with its own local OrderedDict (302-326), the assignment
\* of dict(collapsed_response) (328) and the read of the attribute that is
\* returned (330).  The interpreter switches threads between statements.
MaxThreads == 2

NewThread == [pc |-> "test", i |-> 0, od |-> <<>>, exc |-> "", ret |-> None]

InitThreads ==
    /\ TypeInit
    /\ RegexIdle
    /\ ConfigIdle
    /\ PayIdle
    /\ PostIdle
    /\ kind = "NVP"
    /\ body = <<>>
    /\ truthy = TRUE
    /\ \E extra \in Samples :
           content = RequiredPairs({"ACK", "CORRELATIONID", "TIMESTAMP"}) \o extra
    /\ threads = [t \in 1..MaxThreads |-> NewThread]

\* if self._collapsed_response is None: collapsed_response = OrderedDict()
TTest(t) ==
    /\ pc = "ready"
    /\ threads[t].pc = "test"
    /\ threads' = [threads EXCEPT ![t] =
           IF cache # None THEN [@ EXCEPT !.pc = "return"]
           ELSE IF response = None
           THEN [@ EXCEPT !.pc = "raised", !.exc = "AttributeError"]
           ELSE [@ EXCEPT !.pc = "loop", !.i = 0, !.od = <<>>]]
    /\ UNCHANGED <<nvpVars, regexVars, payVars, postVars, configVars>>

\* TLoop building the mapping in self._collapsed_response instead of a
\* local: every pass stores what it has so far.
TLoop_InPlace(t) ==
    /\ pc = "ready"
    /\ threads[t].pc = "loop"
    /\ threads[t].i < Len(response[1])
    /\ LET item == response[1][threads[t].i + 1]
           step == CollapseStep(threads[t].od, item[1], item[2])
       IN  /\ threads' = [threads EXCEPT ![t] =
                  IF step.exc # ""
                  THEN [@ EXCEPT !.pc = "raised", !.exc = step.exc]
                  ELSE [@ EXCEPT !.i = @ + 1, !.od = step.od]]
           /\ \E order \in Perms(ListKeys(step.od)) :
                  cache' = Some(dict(step.od, order))
    /\ UNCHANGED <<kind, truthy, content, body, pc, response, gens, op, raised, ret, scans>>
    /\ UNCHANGED <<regexVars, payVars, postVars, configVars>>

\* One pass of the loop over self.response.iteritems(), on the local
\* OrderedDict of the thread.
TLoop(t) ==
    /\ pc = "ready"
    /\ threads[t].pc = "loop"
    /\ threads[t].i < Len(response[1])
    /\ LET item == response[1][threads[t].i + 1]
           step == CollapseStep(threads[t].od, item[1], item[2])
       IN  threads' = [threads EXCEPT ![t] =
               IF step.exc # ""
               THEN [@ EXCEPT !.pc = "raised", !.exc = step.exc]
               ELSE [@ EXCEPT !.i = @ + 1, !.od = step.od]]
    /\ UNCHANGED <<nvpVars, regexVars, payVars, postVars, configVars>>

\* The loop is exhausted: self._collapsed_response = dict(collapsed_response)
TStore(t) ==
    /\ pc = "ready"
    /\ threads[t].pc = "loop"
    /\ threads[t].i = Len(response[1])
    /\ \E order \in Perms(ListKeys(threads[t].od)) :
           cache' = Some(dict(threads[t].od, order))
    /\ threads' = [threads EXCEPT ![t].pc = "return"]
    /\ UNCHANGED <<kind, truthy, content, body, pc, response, gens, op, raised, ret, scans>>
    /\ UNCHANGED <<regexVars, payVars, postVars, configVars>>

\* return self._collapsed_response
TReturn(t) ==
    /\ pc = "ready"
    /\ threads[t].pc = "return"
    /\ threads' = [threads EXCEPT ![t].pc = "done", ![t].ret = cache]
    /\ UNCHANGED <<nvpVars, regexVars, payVars, postVars, configVars>>

NextThreads ==
    \/ Construct
    \/ \E t \in 1..MaxThreads : TTest(t)
    \/ \E t \in 1..MaxThreads : TLoop(t)
    \/ \E t \in 1..MaxThreads : TStore(t)
    \/ \E t \in 1..MaxThreads : TReturn(t)

SpecThreads == InitThreads /\ [][NextThreads]_vars

\* ================================================== nvp_array_re alone
\* The expression applied to one key of up to MaxKeyLen characters.
MaxKeyLen == 5

KeyChars == {"L", "_", "A", "0", "1", "\n"}

RECURSIVE Join(_)
\* ''.join(chars)
Join(chars) == IF Len(chars) = 0 THEN "" ELSE chars[1] \o Join(Tail(chars))

InitRegex ==
    /\ NvpIdle
    /\ ThreadsIdle
    /\ ConfigIdle
    /\ PayIdle
    /\ PostIdle
    /\ \E chars \in SeqsUpTo(KeyChars, MaxKeyLen) : rkey = Join(chars)
    /\ rmatch = None

\* match = nvp_array_re.match(key), then match.groups() and int(index) as
\* the loop of collapsed_response takes them.
Match ==
    /\ rmatch = None
    /\ rmatch' = Some(IF nvp_array_re_match(rkey) = None
                      THEN [array |-> FALSE, key |-> rkey, index |-> 0]
                      ELSE [array |-> TRUE,
                            key |-> nvp_array_re_match(rkey)[1][1],
                            index |-> int(nvp_array_re_match(rkey)[1][2])])
    /\ UNCHANGED <<nvpVars, threadVars, rkey, payVars, postVars, configVars>>

NextRegex == Match

SpecRegex == InitRegex /\ [][NextRegex]_vars

\* ================================================================ pay
\* AdaptivePayments.pay and the PayResponse it returns
\* (paypal/api/adaptive_payments.py).  A receiver is its primary flag; the
\* HTTP responses of PayPal are fixed by server before the call.
\* Receivers passed to pay().
MaxReceivers == 7

\* 'You can send to a maximum of 6 receivers'
MaxReceiverCount == 6
\* 'You can have maximum 1 primary receiver'
MaxPrimaryCount == 1

authorization_redirect == "https://www.sandbox.paypal.com/cgi-bin/webscr?cmd=_ap-payment"

FullEnvelope == [ack |-> "x", correlationId |-> "x", timestamp |-> "x"]

\* Bodies of a Pay response: created and awaiting authorization, completed
\* with its payment details, without a payKey, and with a short envelope.
PayBodies == {
    [responseEnvelope |-> FullEnvelope, payKey |-> "AP-1"],
    [responseEnvelope |-> FullEnvelope, payKey |-> "AP-1", paymentInfoList |-> "payments"],
    [responseEnvelope |-> FullEnvelope],
    [responseEnvelope |-> [ack |-> "x"], payKey |-> "AP-1"] }

DetailsBodies == {
    [responseEnvelope |-> FullEnvelope, payKey |-> "AP-1", paymentInfoList |-> "payments"] }

\* An HTTP response: ok is its truth value (requests.Response is true for a
\* status below 400), body what json() gives.
HttpResponses(bodies) ==
    {[ok |-> TRUE, body |-> b] : b \in bodies} \cup {[ok |-> FALSE, body |-> <<>>]}

\* Receiver.number_of_primary(receivers)
RECURSIVE number_of_primary(_)
number_of_primary(rs) ==
    IF Len(rs) = 0 THEN 0
    ELSE (IF rs[1] THEN 1 ELSE 0) + number_of_primary(Tail(rs))

\* PayChecks without the test of the number of primary receivers.
PayChecks_AnyPrimary(rs, key, impl) ==
    IF Len(rs) = 0 THEN "AdaptivePaymentsError"
    ELSE IF Len(rs) > MaxReceiverCount THEN "AdaptivePaymentsError"
    ELSE IF key # None /\ impl THEN "AdaptivePaymentsError"
    ELSE ""

\* The four tests pay() makes before it builds its payload: the exception
\* raised, "" when all pass.  None and the empty list are both false.
PayChecks(rs, key, impl) ==
    IF Len(rs) = 0 THEN "AdaptivePaymentsError"
    ELSE IF number_of_primary(rs) > MaxPrimaryCount THEN "AdaptivePaymentsError"
    ELSE IF Len(rs) > MaxReceiverCount THEN "AdaptivePaymentsError"
    ELSE IF key # None /\ impl THEN "AdaptivePaymentsError"
    ELSE ""

\* PayResponse(config, x) and PaymentDetails(config, x), both plain
\* PaypalJSONAPIResponse constructors: x is true or false and parses to
\* parsed.  Their _required_fields are read by nothing.
JSONResponse(isTruthy, parsed) ==
    [exc |-> ConstructExc("JSON", isTruthy, parsed),
     obj |-> [response |-> IF isTruthy THEN Some(parsed) ELSE None]]

\* The getter of PayResponse.payment_details on the PayResponse pr:
\* PaymentDetails is built from self.response, a dict (true unless empty,
\* and without json(), so parse_response gives it back) or None.
payment_details_get(pr) ==
    IF pr._payment_details # None
    THEN [exc |-> "", pr |-> pr, ret |-> pr._payment_details]
    ELSE LET c == IF pr.response = None THEN JSONResponse(FALSE, <<>>)
                  ELSE JSONResponse(pr.response[1] # <<>>, pr.response[1])
         IN  IF c.exc = "PaypalAPIError" THEN [exc |-> "", pr |-> pr, ret |-> None]
             ELSE IF c.exc # "" THEN [exc |-> c.exc, pr |-> pr, ret |-> None]
             ELSE [exc |-> "",
                   pr |-> [pr EXCEPT !._payment_details = Some(c.obj)],
                   ret |-> Some(c.obj)]

\* PayResponse.paykey: the exception of self.response['payKey'], or "".
paykeyExc(pr) ==
    IF pr.response = None THEN "TypeError"
    ELSE IF "payKey" \notin DOMAIN pr.response[1] THEN "KeyError"
    ELSE ""

\* The getter of PayResponse.redirect
redirect_get(pr) ==
    LET d == payment_details_get(pr)
    IN  IF d.exc # "" THEN [exc |-> d.exc, pr |-> d.pr, ret |-> None]
        ELSE IF d.ret # None THEN [exc |-> "", pr |-> d.pr, ret |-> Some("")]
        ELSE IF paykeyExc(pr) # "" THEN [exc |-> paykeyExc(pr), pr |-> d.pr, ret |-> None]
        ELSE [exc |-> "", pr |-> d.pr,
              ret |-> Some(authorization_redirect \o "&paykey=" \o pr.response[1].payKey)]

PayRequest == [api |-> "Pay", payKey |-> None]
DetailsRequest(k) == [api |-> "PaymentDetails", payKey |-> Some(k)]

\* AdaptivePayments.payment_details(paykey) after the request is posted
payment_details(srv) == JSONResponse(srv.details.ok, srv.details.body)

\* AdaptivePayments.pay: the exception raised, the requests posted and the
\* PayResponse returned.
pay(rs, key, impl, srv) ==
    IF PayChecks(rs, key, impl) # ""
    THEN [exc |-> PayChecks(rs, key, impl), requests |-> <<>>, ret |-> None]
    ELSE LET made == JSONResponse(srv.pay.ok, srv.pay.body)
             pr == [response |-> made.obj.response, _payment_details |-> None]
             got == payment_details_get(pr)
         IN  IF made.exc # ""
             THEN [exc |-> made.exc, requests |-> <<PayRequest>>, ret |-> None]
             ELSE IF ~(impl \/ key # None)
             THEN [exc |-> "", requests |-> <<PayRequest>>, ret |-> Some(pr)]
             ELSE IF got.exc # ""
             THEN [exc |-> got.exc, requests |-> <<PayRequest>>, ret |-> None]
             ELSE IF got.ret # None
             THEN [exc |-> "", requests |-> <<PayRequest>>, ret |-> Some(got.pr)]
             ELSE IF paykeyExc(got.pr) # ""
             THEN [exc |-> paykeyExc(got.pr), requests |-> <<PayRequest>>, ret |-> None]
             ELSE LET second == <<PayRequest, DetailsRequest(got.pr.response[1].payKey)>>
                  IN  IF payment_details(srv).exc # ""
                      THEN [exc |-> payment_details(srv).exc, requests |-> second,
                            ret |-> None]
                      ELSE [exc |-> "", requests |-> second,
                            ret |-> Some([got.pr EXCEPT !._payment_details =
                                              Some(payment_details(srv).obj)])]

InitPay ==
    /\ NvpIdle
    /\ ThreadsIdle
    /\ RegexIdle
    /\ ConfigIdle
    /\ PostIdle
    /\ receivers \in SeqsUpTo(BOOLEAN, MaxReceivers)
    /\ preapproval_key \in {None, Some("PA-1")}
    /\ implicit \in BOOLEAN
    /\ server \in [pay : HttpResponses(PayBodies), details : HttpResponses(DetailsBodies)]
    /\ requests = <<>>
    /\ pay_response = None
    /\ payop = ""
    /\ payraised = ""
    /\ payret = None

\* pay(receivers=..., preapproval_key=..., implicit=...)
Pay ==
    /\ payop = ""
    /\ LET r == pay(receivers, preapproval_key, implicit, server)
       IN  /\ requests' = r.requests
           /\ payraised' = r.exc
           /\ pay_response' = r.ret
    /\ payop' = "pay"
    /\ payret' = None
    /\ UNCHANGED <<receivers, preapproval_key, implicit, server>>
    /\ UNCHANGED <<nvpVars, threadVars, regexVars, postVars, configVars>>

\* A read of pay_response.payment_details
ReadPaymentDetails ==
    /\ pay_response # None
    /\ LET r == payment_details_get(pay_response[1])
       IN  /\ pay_response' = Some(r.pr)
           /\ payraised' = r.exc
           /\ payret' = r.ret
    /\ payop' = "payment_details"
    /\ UNCHANGED <<receivers, preapproval_key, implicit, server, requests>>
    /\ UNCHANGED <<nvpVars, threadVars, regexVars, postVars, configVars>>

\* A read of pay_response.redirect
ReadRedirect ==
    /\ pay_response # None
    /\ LET r == redirect_get(pay_response[1])
       IN  /\ pay_response' = Some(r.pr)
           /\ payraised' = r.exc
           /\ payret' = r.ret
    /\ payop' = "redirect"
    /\ UNCHANGED <<receivers, preapproval_key, implicit, server, requests>>
    /\ UNCHANGED <<nvpVars, threadVars, regexVars, postVars, configVars>>

NextPay == Pay \/ ReadPaymentDetails \/ ReadRedirect

SpecPay == InitPay /\ [][NextPay]_vars

\* =============================================================== post
\* PaypalAPIRequest.post (paypal/api/__init__.py) as called on
\* AdaptivePayments and on Merchant.  A mapping is a function on its keys;
\* an argument is None when it is not passed and <<mapping>> when it is.
\* A value of data is None or a string.
DataKeys == {"EMAIL", "INVNUM"}
DataVals == {None, Some("a"), Some("bc")}
HeaderKeys == {"X-PAYPAL-APPLICATION-ID", "X-PP-AUTHORIZATION"}

Mappings(K, V) == UNION {[S -> V] : S \in SUBSET K}

\* self.headers() of the two request classes
standard_headers(a) ==
    IF a = "AdaptivePayments"
    THEN [k \in {"X-PAYPAL-SECURITY-USERID", "X-PAYPAL-SECURITY-PASSWORD",
                 "X-PAYPAL-SECURITY-SIGNATURE", "X-PAYPAL-APPLICATION-ID",
                 "X-PAYPAL-REQUEST-DATA-FORMAT", "X-PAYPAL-RESPONSE-DATA-FORMAT"} |->
             CASE k = "X-PAYPAL-SECURITY-USERID" -> "userid"
               [] k = "X-PAYPAL-SECURITY-PASSWORD" -> "password"
               [] k = "X-PAYPAL-SECURITY-SIGNATURE" -> "signature"
               [] k = "X-PAYPAL-APPLICATION-ID" -> "application_id"
               [] OTHER -> "JSON"]
    ELSE <<>>

\* a.update(b) on a copy of a
update(a, b) ==
    [k \in DOMAIN a \cup DOMAIN b |-> IF k \in DOMAIN b THEN b[k] ELSE a[k]]

\* self.encode_data(data): json.dumps for the JSON classes, the mapping
\* itself for the NVP classes.
encode_data(a, d) ==
    IF a = "AdaptivePayments" THEN [json |-> d] ELSE [form |-> d]

\* post removing the None entries from the caller's data and adding the
\* standard headers to the caller's headers, in place.
post_InPlace(a, d, h) ==
    LET dd == IF d = None THEN <<>> ELSE d[1]
        final_data == [k \in {x \in DOMAIN dd : dd[x] # None} |-> dd[k]]
        final_headers ==
            IF h = None THEN update(<<>>, standard_headers(a))
            ELSE update(update(<<>>, standard_headers(a)), h[1])
    IN  [sent |-> [data |-> encode_data(a, final_data), headers |-> final_headers],
         data |-> IF d = None THEN None ELSE Some(final_data),
         headers |-> IF h = None THEN None ELSE Some(final_headers)]

\* post(url, data=d, headers=h) on the request class a: what is handed to
\* requests.post, and the caller's two mappings as the call leaves them.
post(a, d, h) ==
    LET dd == IF d = None THEN <<>> ELSE d[1]
        final_data == [k \in {x \in DOMAIN dd : dd[x] # None} |-> dd[k]]
        final_headers ==
            IF h = None THEN update(<<>>, standard_headers(a))
            ELSE update(update(<<>>, standard_headers(a)), h[1])
    IN  [sent |-> [data |-> encode_data(a, final_data), headers |-> final_headers],
         data |-> d,
         headers |-> h]

InitPost ==
    /\ NvpIdle
    /\ ThreadsIdle
    /\ RegexIdle
    /\ ConfigIdle
    /\ PayIdle
    /\ api \in {"AdaptivePayments", "Merchant"}
    /\ data \in {None} \cup {Some(m) : m \in Mappings(DataKeys, DataVals)}
    /\ headers \in {None} \cup {Some(m) : m \in Mappings(HeaderKeys, {"caller"})}
    /\ sent = None

Post ==
    /\ sent = None
    /\ sent' = Some(post(api, data, headers).sent)
    /\ data' = post(api, data, headers).data
    /\ headers' = post(api, data, headers).headers
    /\ UNCHANGED api
    /\ UNCHANGED <<nvpVars, threadVars, regexVars, payVars, configVars>>

NextPost == Post

SpecPost == InitPost /\ [][NextPost]_vars

\* ====================================================== configuration
\* Configuration (paypal/configuration.py) and the config of the API classes
\* and instances (PaypalAPIMeta, PaypalAPI in paypal/api/__init__.py).  A
\* Configuration object is the record of its five attributes.
\* API instances constructed in one run.
MaxInstances == 2

\* PaypalAPI and one of its subclasses; a class without _configuration in
\* its own __dict__ finds the one of its base class.
Classes == {"PaypalAPI", "AdaptivePayments"}
Parent(c) == IF c = "AdaptivePayments" THEN Some("PaypalAPI") ELSE None

\* Environment.<env>.application_id
environment_application_id(env) ==
    IF env = "Sandbox" THEN Some("APP-80W284485P519543T") ELSE None

\* Arguments Configuration.configure and Configuration(...) are called with.
SettingsPool == {
    [environment |-> "Sandbox", userid |-> "u1", password |-> "p1",
     signature |-> "s1", application_id |-> None],
    [environment |-> "Production", userid |-> "u2", password |-> "p2",
     signature |-> "s2", application_id |-> Some("APP-2")] }

\* Configuration.__init__
Configuration(a) ==
    [a EXCEPT !.application_id =
        IF a.application_id # None THEN a.application_id
        ELSE environment_application_id(a.environment)]

\* Configuration.instantiate() with the class attributes st: before any
\* configure they are all None, and None has no application_id.
instantiate(st) ==
    IF st = None THEN [exc |-> "AttributeError", obj |-> None]
    ELSE [exc |-> "", obj |-> Some(Configuration(st[1]))]

\* cls._configuration, looked up along the base classes; PaypalAPI itself
\* starts with None.
RECURSIVE class_configuration(_, _)
class_configuration(o, c) ==
    IF o[c] # None THEN o[c]
    ELSE IF Parent(c) # None THEN class_configuration(o, Parent(c)[1])
    ELSE None

InitConfig ==
    /\ NvpIdle
    /\ ThreadsIdle
    /\ RegexIdle
    /\ PayIdle
    /\ PostIdle
    /\ settings = None
    /\ own = [c \in Classes |-> None]
    /\ instances = <<>>
    /\ cfgop = [name |-> "", class |-> "", index |-> 0]
    /\ cfgraised = ""
    /\ cfgret = None

\* Configuration.configure(environment, userid, password, signature,
\* application_id)
Configure(a) ==
    /\ settings' = Some(a)
    /\ cfgop' = [name |-> "configure", class |-> "", index |-> 0]
    /\ cfgraised' = ""
    /\ cfgret' = None
    /\ UNCHANGED <<own, instances>>
    /\ UNCHANGED <<nvpVars, threadVars, regexVars, payVars, postVars>>

\* A read of c.config (PaypalAPIMeta.configuration)
ReadClass(c) ==
    /\ cfgop' = [name |-> "class", class |-> c, index |-> 0]
    /\ IF class_configuration(own, c) # None
       THEN /\ cfgret' = class_configuration(own, c)
            /\ cfgraised' = ""
            /\ UNCHANGED own
       ELSE /\ cfgraised' = instantiate(settings).exc
            /\ cfgret' = instantiate(settings).obj
            /\ own' = IF instantiate(settings).exc = ""
                      THEN [own EXCEPT ![c] = instantiate(settings).obj]
                      ELSE own
    /\ UNCHANGED <<settings, instances>>
    /\ UNCHANGED <<nvpVars, threadVars, regexVars, payVars, postVars>>

\* PaypalAPI(configuration=given): PaypalAPI.__init__
NewInstance(given) ==
    /\ Len(instances) < MaxInstances
    /\ instances' = Append(instances, [given |-> given, _configuration |-> given])
    /\ cfgop' = [name |-> "__init__", class |-> "", index |-> Len(instances) + 1]
    /\ cfgraised' = ""
    /\ cfgret' = None
    /\ UNCHANGED <<settings, own>>
    /\ UNCHANGED <<nvpVars, threadVars, regexVars, payVars, postVars>>

\* A read of config on the i-th instance (PaypalAPI.configuration)
ReadInstance(i) ==
    /\ i \in 1..Len(instances)
    /\ cfgop' = [name |-> "instance", class |-> "", index |-> i]
    /\ IF instances[i]._configuration # None
       THEN /\ cfgret' = instances[i]._configuration
            /\ cfgraised' = ""
            /\ UNCHANGED instances
       ELSE /\ cfgraised' = instantiate(settings).exc
            /\ cfgret' = instantiate(settings).obj
            /\ instances' = IF instantiate(settings).exc = ""
                            THEN [instances EXCEPT ![i]._configuration =
                                      instantiate(settings).obj]
                            ELSE instances
    /\ UNCHANGED <<settings, own>>
    /\ UNCHANGED <<nvpVars, threadVars, regexVars, payVars, postVars>>

NextConfig ==
    \/ \E a \in SettingsPool : Configure(a)
    \/ \E c \in Classes : ReadClass(c)
    \/ \E given \in {None} \cup {Some(Configuration(a)) : a \in SettingsPool} :
          NewInstance(given)
    \/ \E i \in 1..MaxInstances : ReadInstance(i)

SpecConfig == InitConfig /\ [][NextConfig]_vars

\* =============================================================== claims
\* The FlatRecord and the CollapsedRecord of the instance, when it has them.
Flat == response[1]
Collapsed == cache[1].map

HasFlat == pc = "ready" /\ kind = "NVP" /\ response # None

ArrayAt(n) == nvp_array_re_match(Flat[n][1])
FieldAt(n) == ArrayAt(n)[1][1]
IndexAt(n) == int(ArrayAt(n)[1][2])

ArrayFields == {k \in DOMAIN Collapsed : Collapsed[k].isList}

MinOf(S) == CHOOSE x \in S : \A y \in S : x <= y
MaxOf(S) == CHOOSE x \in S : \A y \in S : x >= y

\* The scan reaches item n with a list of more than IndexAt(n) elements
\* already built for the field of that item.
ReachedBehind(n) ==
    /\ ArrayAt(n) # None
    /\ Scan(Flat, n - 1).exc = ""
    /\ odHas(Scan(Flat, n - 1).od, FieldAt(n))
    /\ odGet(Scan(Flat, n - 1).od, FieldAt(n)).isList
    /\ IndexAt(n) < Len(odGet(Scan(Flat, n - 1).od, FieldAt(n)).items)

\* C1: a read of collapsed_response whose scan reaches an array key with
\* an index below the length of the list already built for its field
\* raises IndexError (the ordering violation) and returns no mapping,
\* leaving the cache unset.
C1_OrderViolationFails ==
    (HasFlat /\ op = "collapsed_response"
        /\ \E n \in 1..Len(Flat) : ReachedBehind(n))
    => (raised = "IndexError" /\ ret = None /\ cache = None)

C1_Witness ==
    /\ HasFlat
    /\ op = "collapsed_response"
    /\ \E n \in 1..Len(Flat) :
          ReachedBehind(n) /\ Flat[n][1] = "L_FOO0" /\ odHas(Flat, "L_FOO1")
    /\ raised = "IndexError"

\* Indices of the array keys of the FlatRecord that collapse under F.
IndicesOf(F) ==
    {IndexAt(n) : n \in {m \in 1..Len(Flat) : ArrayAt(m) # None /\ FieldAt(m) = F}}

\* C2: after a successful collapse, for every array key L_F<i> = v of the
\* FlatRecord the CollapsedRecord holds under L_F a list with v at position
\* i, of length (highest index seen for F) + 1, and with None at every
\* position no key of the input names.
C2_ArrayPositions ==
    (HasFlat /\ cache # None) =>
        \A n \in 1..Len(Flat) :
            ArrayAt(n) # None =>
                /\ FieldAt(n) \in DOMAIN Collapsed
                /\ Collapsed[FieldAt(n)].isList
                /\ Len(Collapsed[FieldAt(n)].items) = MaxOf(IndicesOf(FieldAt(n))) + 1
                /\ Collapsed[FieldAt(n)].items[IndexAt(n) + 1] = Some(Flat[n][2])
                /\ \A p \in 0..MaxOf(IndicesOf(FieldAt(n))) :
                      p \notin IndicesOf(FieldAt(n))
                          => Collapsed[FieldAt(n)].items[p + 1] = None

\* The field identifier with exactly the leading L_ removed.
WithoutPrefix(F) == SubSeq(F, 3, Len(F))

\* C3: the record a generator of zipped_response emits at position p maps,
\* for every array field L_F of the CollapsedRecord, the key F (L_F without
\* its first two characters) to the p-th element of the list of L_F.
C3_StrippedKeys ==
    (HasFlat /\ cache # None) =>
        \A g \in 1..Len(gens) : \A p \in 1..Len(gens[g].out) : \A F \in ArrayFields :
            /\ WithoutPrefix(F) \in DOMAIN gens[g].out[p]
            /\ gens[g].out[p][WithoutPrefix(F)] = Collapsed[F].items[p]

ArrayLens == {Len(Collapsed[F].items) : F \in ArrayFields}

\* C4: a generator of zipped_response never emits more records than the
\* shortest list of the CollapsedRecord has elements, and when it is
\* exhausted it has emitted exactly that many: none when there is no list.
C4_ZipLength ==
    (HasFlat /\ cache # None) =>
        \A g \in 1..Len(gens) :
            /\ ArrayFields = {} => Len(gens[g].out) = 0
            /\ ArrayFields # {} => Len(gens[g].out) <= MinOf(ArrayLens)
            /\ (gens[g].st = "done" /\ ArrayFields # {})
                  => Len(gens[g].out) = MinOf(ArrayLens)

C4_Witness ==
    /\ HasFlat
    /\ cache # None
    /\ Cardinality(ArrayLens) >= 2
    /\ MinOf(ArrayLens) >= 1
    /\ \E g \in 1..Len(gens) :
          gens[g].st = "done" /\ Len(gens[g].out) = MinOf(ArrayLens)

\* C5: a read of collapsed_response on an instance that has a FlatRecord
\* returns the mapping or raises IndexError, nothing else.
C5_SoleFailure ==
    (HasFlat /\ op = "collapsed_response") => raised \in {"", "IndexError"}

\* The payload lacks a required top-level field.
LacksRequired ==
    IF kind = "NVP"
    THEN \E k \in {"ACK", "CORRELATIONID", "TIMESTAMP"} :
            \A n \in 1..Len(content) : content[n][1] # k
    ELSE \/ "responseEnvelope" \notin DOMAIN body
         \/ \E k \in RequiredJSON : k \notin DOMAIN body.responseEnvelope

\* C6: constructing a response from a payload that lacks a required field
\* raises PaypalAPIError, never a raw KeyError.
C6_UniformParseError ==
    (op = "__init__" /\ truthy /\ LacksRequired) => raised = "PaypalAPIError"

\* C7: after a successful collapse every scalar key of the FlatRecord is in
\* the CollapsedRecord with the same string value, and a FlatRecord without
\* array keys collapses to exactly its own keys and values.
C7_ScalarsKept ==
    (HasFlat /\ cache # None) =>
        /\ \A n \in 1..Len(Flat) :
              ArrayAt(n) = None =>
                  /\ Flat[n][1] \in DOMAIN Collapsed
                  /\ Collapsed[Flat[n][1]] = StrVal(Flat[n][2])
        /\ (\A n \in 1..Len(Flat) : ArrayAt(n) = None)
              => DOMAIN Collapsed = odKeys(Flat)

C7_Witness ==
    /\ HasFlat
    /\ cache # None
    /\ odHas(Flat, "L_FOO")
    /\ odHas(Flat, "L_FOO0")
    /\ Collapsed["L_FOO"] = StrVal(odGet(Flat, "L_FOO"))

\* C8: the loop of collapsed_response runs to its end at most once per
\* instance; once the cache is set no step scans again or replaces it, and
\* every later read returns the cached mapping.
C8_ScanOnce ==
    /\ [](scans <= 1)
    /\ [][cache # None =>
            /\ cache' = cache
            /\ scans' = scans
            /\ op' = "collapsed_response" => (raised' = "" /\ ret' = cache)]_vars

C8_Witness ==
    /\ HasFlat
    /\ scans = 1
    /\ Len(gens) >= 1
    /\ gens[1].st = "running"
    /\ op = "collapsed_response"
    /\ ret = cache

PrefixOf(a, b) == Len(a) <= Len(b) /\ \A i \in 1..Len(a) : a[i] = b[i]

\* C10: zipped_response never changes the parsed response nor a cached
\* CollapsedRecord, and its generators do not share position: whatever the
\* interleaving, the records two generators have emitted agree from
\* position 0 on, and two exhausted generators have emitted the same
\* sequence.
C10_Restartable ==
    /\ [](HasFlat =>
            /\ response = Some(parse_nvp(content))
            /\ \A g, h \in 1..Len(gens) :
                  /\ PrefixOf(gens[g].out, gens[h].out)
                        \/ PrefixOf(gens[h].out, gens[g].out)
                  /\ (gens[g].st = "done" /\ gens[h].st = "done")
                        => gens[g].out = gens[h].out)
    /\ [][(pc = "ready" /\ op' \in {"zipped_response", "next"}) =>
            /\ response' = response
            /\ cache # None => cache' = cache]_vars

C10_Witness ==
    /\ HasFlat
    /\ Len(gens) = 2
    /\ gens[1].st = "running"
    /\ gens[1].pos = 1
    /\ gens[2].st = "done"
    /\ Len(gens[2].out) >= 2

\* What a read of collapsed_response gives when nothing else runs.
Sequential == Scan(Flat, Len(Flat))

\* C11: with several threads inside the getter of collapsed_response at
\* once, the cache is at every moment unset or the complete mapping of a
\* sequential collapse, every thread that returns has that mapping, and a
\* thread raises only the error the sequential collapse raises.
C11_ThreadsSeeComplete ==
    (pc = "ready" /\ threads # <<>>) =>
        /\ cache # None =>
              /\ Sequential.exc = ""
              /\ cache[1].map = dict(Sequential.od, <<>>).map
              /\ cache[1].order \in Perms(ListKeys(Sequential.od))
        /\ \A t \in DOMAIN threads :
              /\ threads[t].pc = "done" =>
                    /\ threads[t].ret # None
                    /\ threads[t].ret[1].map = dict(Sequential.od, <<>>).map
              /\ threads[t].pc = "raised" =>
                    (Sequential.exc # "" /\ threads[t].exc = Sequential.exc)

\* Two threads were both scanning before either stored, and both returned.
C11_Witness ==
    /\ pc = "ready"
    /\ threads # <<>>
    /\ odHas(Flat, "L_TIMESTAMP1")
    /\ \A t \in 1..2 :
          /\ threads[t].pc = "done"
          /\ threads[t].i = Len(Flat)
          /\ threads[t].ret = cache

\* C12: a key is treated as an array key exactly when it starts with L_,
\* ends with a run of decimal digits and has at least one character between
\* the two; its index is the value of the whole run and its identifier is
\* the key without the run.  Every other key is a scalar.
C12_ArrayKeyShape ==
    rmatch # None =>
        LET d == TrailingDigits(rkey)
            shaped == d >= 1 /\ Len(rkey) - d >= 3 /\ SubSeq(rkey, 1, 2) = "L_"
        IN  /\ rmatch[1].array <=> shaped
            /\ rmatch[1].array =>
                  /\ rmatch[1].key = SubSeq(rkey, 1, Len(rkey) - d)
                  /\ rmatch[1].index = int(SubSeq(rkey, Len(rkey) - d + 1, Len(rkey)))

\* The array field identifiers of the FlatRecord.
InputFields == {FieldAt(n) : n \in {m \in 1..Len(Flat) : ArrayAt(m) # None}}

\* For every array field the indices present are 0, 1, ..., without a gap.
Contiguous == \A F \in InputFields : IndicesOf(F) = 0..MaxOf(IndicesOf(F))

SameIndices == \A F, G \in InputFields : IndicesOf(F) = IndicesOf(G)

FirstAppearance ==
    LET keys == [j \in 1..Len(Sequential.od) |-> Sequential.od[j][1]]
    IN  SelectSeq(keys, LAMBDA k : odGet(Sequential.od, k).isList)

\* C14: the mapping collapsed_response returns iterates in the order of
\* first appearance of its keys in the FlatRecord; stated for the keys
\* holding lists, whose order is what zipped_response goes by.
C14_KeepsOrder ==
    (HasFlat /\ cache # None) => cache[1].order = FirstAppearance

\* One of the conditions pay() refuses: no receivers, more than one primary
\* receiver, more than six receivers, preapproval_key together with implicit.
Refused ==
    \/ receivers = <<>>
    \/ Cardinality({j \in 1..Len(receivers) : receivers[j]}) > 1
    \/ Len(receivers) > 6
    \/ (preapproval_key # None /\ implicit)

\* C15: pay() called under one of the refused conditions raises
\* AdaptivePaymentsError, returns nothing and posts no request; whenever a
\* request was posted none of the conditions held.
C15_RefusedBeforePost ==
    payop # "" =>
        /\ Refused => /\ payop = "pay"
                      /\ payraised = "AdaptivePaymentsError"
                      /\ requests = <<>>
                      /\ pay_response = None
        /\ requests # <<>> => ~Refused

C15_Witness ==
    /\ payop = "pay"
    /\ Len(receivers) = 7
    /\ Cardinality({j \in 1..Len(receivers) : receivers[j]}) = 1
    /\ preapproval_key = None
    /\ payraised = "AdaptivePaymentsError"
    /\ requests = <<>>

\* The Pay response was parsed, names a payKey and carries no payment
\* details, and no PaymentDetails request was made for it.
AwaitsAuthorization ==
    /\ pay_response # None
    /\ pay_response[1].response # None
    /\ "payKey" \in DOMAIN pay_response[1].response[1]
    /\ "paymentInfoList" \notin DOMAIN pay_response[1].response[1]
    /\ Len(requests) = 1

\* C16: on a PayResponse that awaits authorization a read of
\* payment_details gives None and a read of redirect gives the
\* authorization URL followed by &paykey= and the payKey; redirect is the
\* empty string only when payment details are there.
C16_RedirectWhenNoDetails ==
    AwaitsAuthorization =>
        /\ payop = "payment_details" => (payraised = "" /\ payret = None)
        /\ payop = "redirect" =>
              /\ payraised = ""
              /\ payret # Some("")
              /\ payret = Some(authorization_redirect \o "&paykey="
                                  \o pay_response[1].response[1].payKey)

\* C18: pay() called with implicit or preapproval_key whose Pay response
\* names a payKey and carries no payment details has, when it returns,
\* posted the Pay request and then a PaymentDetails request for that payKey,
\* and the PayResponse holds the PaymentDetails built from the answer.
C18_DetailsFetched ==
    (/\ payop = "pay"
     /\ payraised = ""
     /\ (implicit \/ preapproval_key # None)
     /\ "payKey" \in DOMAIN server.pay.body
     /\ "paymentInfoList" \notin DOMAIN server.pay.body) =>
        /\ requests = <<PayRequest, DetailsRequest(server.pay.body.payKey)>>
        /\ pay_response[1]._payment_details = Some(payment_details(server).obj)

\* The entries of the caller's data, {} when none was passed.
GivenData == IF data = None THEN <<>> ELSE data[1]

\* C17: a call of post hands to requests.post exactly the entries of data
\* whose value is not None (none when data is absent) and the standard
\* headers of the class with every header of the headers argument added or
\* put in place of the standard one; the caller's two mappings are after
\* the call what they were before.
C17_PostSendsStripped ==
    [][(sent = None /\ sent' # None) =>
          LET payload == IF api = "AdaptivePayments" THEN sent'[1].data.json
                      ELSE sent'[1].data.form
              hs == sent'[1].headers
          IN  /\ DOMAIN payload = {k \in DOMAIN GivenData : GivenData[k] # None}
              /\ \A k \in DOMAIN payload : payload[k] = GivenData[k]
              /\ DOMAIN hs = DOMAIN standard_headers(api)
                                 \cup (IF headers = None THEN {} ELSE DOMAIN headers[1])
              /\ \A k \in DOMAIN hs :
                    hs[k] = IF headers # None /\ k \in DOMAIN headers[1]
                            THEN headers[1][k]
                            ELSE standard_headers(api)[k]
              /\ data' = data
              /\ headers' = headers]_vars

C17_Witness ==
    /\ sent # None
    /\ api = "AdaptivePayments"
    /\ data = Some([k \in DataKeys |-> IF k = "EMAIL" THEN None ELSE Some("a")])
    /\ headers = Some([k \in HeaderKeys |-> "caller"])
    /\ sent[1].headers["X-PAYPAL-APPLICATION-ID"] = "caller"
    /\ sent[1].headers["X-PAYPAL-SECURITY-USERID"] = "userid"
    /\ DOMAIN sent[1].data.json = {"INVNUM"}

\* The payload has the three required keys and its scan meets an index
\* behind the list already built.
ContentViolates ==
    /\ kind = "NVP"
    /\ truthy
    /\ LET parsed == parse_nvp(content)
       IN  /\ \A k \in {"ACK", "CORRELATIONID", "TIMESTAMP"} : odHas(parsed, k)
           /\ Scan(parsed, Len(parsed)).exc = "IndexError"

\* C19: for a payload with the required keys and an ordering violation the
\* constructor and zipped_response() raise nothing; every read of
\* collapsed_response raises IndexError, the first next() of every generator
\* raises IndexError, and no generator ever emits a record.
C19_ErrorOnFirstUse ==
    /\ [](ContentViolates =>
            /\ pc # "failed"
            /\ op \in {"__init__", "zipped_response"} => raised = ""
            /\ op = "collapsed_response" => (raised = "IndexError" /\ ret = None)
            /\ op = "next" => (raised \in {"IndexError", "StopIteration"} /\ ret = None)
            /\ \A g \in 1..Len(gens) : gens[g].out = <<>>)
    /\ [][\A g \in 1..Len(gens) :
              (gens[g].st = "created" /\ gens'[g].st # "created" /\ ContentViolates)
                  => (raised' = "IndexError" /\ gens'[g].st = "done")]_vars

C19_Witness ==
    /\ ContentViolates
    /\ pc = "ready"
    /\ Len(gens) = 2
    /\ gens[1].st = "created"
    /\ gens[2].st = "done"
    /\ op = "next"
    /\ raised = "IndexError"

\* The instance has a FlatRecord whose collapse fails.
CollapseFails == HasFlat /\ Sequential.exc # ""

\* C20: on an instance whose collapse fails the cache stays unset and the
\* parsed response stays what it was; every read of collapsed_response and
\* the first next() of every generator raise the error of the scan, again
\* each time, and no mapping and no record is ever handed out.
C20_FailureNotCached ==
    /\ [](CollapseFails =>
            /\ cache = None
            /\ scans = 0
            /\ response = Some(parse_nvp(content))
            /\ op = "collapsed_response" => (raised = Sequential.exc /\ ret = None)
            /\ op = "next" => (raised \in {Sequential.exc, "StopIteration"} /\ ret = None)
            /\ \A g \in 1..Len(gens) : gens[g].out = <<>>)
    /\ [][/\ (op' = "collapsed_response" /\ CollapseFails)
                  => raised' = Sequential.exc
           /\ \A g \in 1..Len(gens) :
                 (gens[g].st = "created" /\ gens'[g].st # "created" /\ CollapseFails)
                     => raised' = Sequential.exc]_vars

\* A read fails after two generators have already failed.
C20_Witness ==
    /\ CollapseFails
    /\ Len(gens) = 2
    /\ gens[1].st = "done"
    /\ gens[2].st = "done"
    /\ op = "collapsed_response"
    /\ raised = Sequential.exc
    /\ cache = None

\* C21: once Configuration.configure has been called, a read of config on
\* an API class, or on an instance made without a configuration, returns
\* the settings of the most recent configure call, and a read of config on
\* an instance made with a configuration returns that configuration.
C21_ConfigTracksGlobal ==
    /\ (cfgop.name = "class" /\ settings # None) =>
          (cfgraised = "" /\ cfgret = Some(Configuration(settings[1])))
    /\ cfgop.name = "instance" =>
          IF instances[cfgop.index].given # None
          THEN cfgraised = "" /\ cfgret = instances[cfgop.index].given
          ELSE settings # None =>
                  (cfgraised = "" /\ cfgret = Some(Configuration(settings[1])))

====
